---- MODULE Spec2Model ----
(***************************************************************************)
(* Model of the semi-auto party-game client: the network manager           *)
(* (networking.js: socket lifecycle, heartbeat, event dispatch, callback   *)
(* registration) and the round coordinator of js/index.js (roster, round   *)
(* state, round timer, tap grid).  One client is modelled; the relay and   *)
(* the peers are the environment, which delivers wire messages.            *)
(***************************************************************************)
EXTENDS Integers, Sequences, FiniteSets, TLC

\* ---------------------------------------------------------------- bounds
MaxSockets == 2      \* socket objects io() may create in one run
MaxSetups == 2       \* listener sets registered on one socket
MaxPlayers == 2      \* roster length
MaxTimers == 2       \* timer ids in use at once
MaxLetter == 13      \* letters of the alphabet the random draws reach
MaxModals == 2       \* result displays appended to the page

\* ------------------------------------------------------ program constants
PING_INTERVAL == 25000
PONG_TIMEOUT == 60000
RECONNECT_DELAY == 1000
CodeLength == 4

\* Time advances on a grid of one fifth of the heartbeat interval.
TimeStep == PING_INTERVAL \div 5

\* ------------------------------------------------------------ value sets
Names == {"ann", "bob"}
Skins == {1, 2}
Codes == {"ABCD"}
NoName == ""         \* undefined / empty string (falsy)
NoSkin == 0          \* undefined skin
Undefined == "undefined"
Null == "null"
PlayerIds == {Undefined, "p1"}

CallbackNames ==
    {"onPlayerJoined", "onPlayerLeft", "onPlayerInfoUpdate", "onGameStarting",
     "onRoomClosed", "onTapEvent", "onGameStateUpdate"}

\* The callback a socket event is dispatched to.
CallbackOf(type) ==
    CASE type = "playerJoined" -> "onPlayerJoined"
      [] type = "playerLeft" -> "onPlayerLeft"
      [] type = "player-info-update" -> "onPlayerInfoUpdate"
      [] type = "gameStarting" -> "onGameStarting"
      [] type = "roomClosed" -> "onRoomClosed"
      [] type = "tapEvent" -> "onTapEvent"
      [] type = "gameStateUpdate" -> "onGameStateUpdate"
      [] OTHER -> "none"

RosterEvents == {"playerJoined", "playerLeft", "player-info-update"}

\* A wire message from the relay; unused payload fields keep their defaults.
Msg(type, name, newName, skin, playerId, gameEnded) ==
    [type |-> type, name |-> name, newName |-> newName, skin |-> skin,
     playerId |-> playerId, gameEnded |-> gameEnded, message |-> ""]

NoMsg == Msg("none", NoName, NoName, NoSkin, Undefined, FALSE)

RosterMsgs ==
    {Msg("playerJoined", n, NoName, s, Undefined, FALSE) : n \in Names, s \in Skins}
    \cup {Msg("playerLeft", n, NoName, NoSkin, Undefined, FALSE) : n \in Names}
    \cup {Msg("player-info-update", n, m, s, Undefined, FALSE) :
            n \in Names, m \in {NoName, "bob"}, s \in {NoSkin, 2}}

SessionMsgs ==
    {Msg(t, NoName, NoName, NoSkin, Undefined, FALSE) :
        t \in {"pong", "roomClosed", "roomError", "joinSuccess"}}

RoundMsgs ==
    {Msg("gameStarting", NoName, NoName, NoSkin, Undefined, FALSE)}
    \cup {Msg("gameStateUpdate", NoName, NoName, NoSkin, Undefined, e) : e \in BOOLEAN}
    \cup {Msg("tapEvent", NoName, NoName, NoSkin, p, FALSE) : p \in PlayerIds}

\* ------------------------------------------------------ callback sets
\* A callback set maps each callback name to its owner ("index" for the
\* closures of js/index.js, "B" for another registrant) or to Undefined.
IndexCallbacks == [c \in CallbackNames |-> "index"]

CallbacksB == [c \in CallbackNames |-> "B"]

\* A set that, like the first registration of js/index.js, supplies no
\* onTapEvent and no onGameStateUpdate.
CallbacksBPartial ==
    [c \in CallbackNames |->
        IF c \in {"onTapEvent", "onGameStateUpdate"} THEN Undefined ELSE "B"]

CallbackSets == {IndexCallbacks, CallbacksB, CallbacksBPartial}

SetCallbacksMerge(old, cbs) ==
    [c \in CallbackNames |-> IF cbs[c] = Undefined THEN old[c] ELSE cbs[c]]

\* setCallbacks assigns every callback variable from the argument.
SetCallbacksAssign(old, cbs) == [c \in CallbackNames |-> cbs[c]]

\* ------------------------------------------ js/index.js: generateRoomCode
\* Strings are sequences of one-character strings.
letters ==
    <<"A", "B", "C", "D", "E", "F", "G", "H", "J", "K", "L", "M",
      "N", "P", "Q", "R", "S", "T", "U", "W", "X", "Y", "Z">>

badWords ==
    << <<"F", "U", "C", "K">>, <<"F", "V", "C", "K">>, <<"S", "H", "I", "T">>,
       <<"D", "A", "M", "N">>, <<"C", "U", "N", "T">>, <<"D", "I", "C", "K">>,
       <<"C", "O", "C", "K">>, <<"T", "W", "A", "T">>, <<"C", "R", "A", "P">>,
       <<"S", "T", "F", "U">> >>

\* str.charAt(i), i counted from 0
CharAt(str, i) == str[i + 1]

\* str.includes(word)
Includes(str, word) ==
    \E i \in 0..(Len(str) - Len(word)) :
        SubSeq(str, i + 1, i + Len(word)) = word

IsBadNever(str) == FALSE

\* badWords.some(word => code.includes(word))
IsBad(str) == \E k \in DOMAIN badWords : Includes(str, badWords[k])

\* No call of generateRoomCode yet.
NoCode == [code |-> <<>>, retried |-> FALSE, returned |-> <<>>]

\* Math.floor(Math.random() * letters.length), over the first
\* MaxLetter letters.
RandomIndex ==
    0..((IF MaxLetter < Len(letters) THEN MaxLetter ELSE Len(letters)) - 1)

\* ------------------------------------------------ js/index.js: page state
\* The state the callbacks of js/index.js act on, as one record so that a
\* callback that runs several times in one dispatch composes with itself.
\*   players          roster, in push order
\*   gameEndTimeout   id of the round timer last armed, 0 for null
\*   roundTimers      ids of the round timers still pending
\*   cells            .player-cell elements of the grid, in document order
\*   winnerModals     result displays appended to the body
\*   roundStarted, roundEnds   history: a round has begun; endGame runs
\*                    since the last startGame
\*   hostedClosed     history: resetGameState has run on a client that was host
\*   result           winner and maxTaps of the latest result display
\*   roomClosed       history: resetGameState has run and no room has been
\*                    created or joined since
Player(name, skinId) == [name |-> name, skinId |-> skinId]

Cell(id, name, taps) == [id |-> id, name |-> name, taps |-> taps]

FreshTimer(used) ==
    CHOOSE i \in 1..(Cardinality(used) + 1) : i \notin used

AddPlayerToListFront(a, name, skinId) ==
    [a EXCEPT !.players = <<Player(name, skinId)>> \o @]

\* addPlayerToList: the page has #player-list, so the early return is not taken.
AddPlayerToList(a, name, skinId) ==
    [a EXCEPT !.players = Append(@, Player(name, skinId))]

\* The index of the first entry of ps named name, 0 if there is none.
FirstNamed(ps, name) ==
    IF \E i \in 1..Len(ps) : ps[i].name = name
    THEN CHOOSE i \in 1..Len(ps) :
            ps[i].name = name /\ \A j \in 1..(i - 1) : ps[j].name # name
    ELSE 0

RemoveFirstPlayerFromList(a, name) ==
    LET i == FirstNamed(a.players, name) IN
    IF i = 0 THEN a
    ELSE [a EXCEPT !.players = SubSeq(@, 1, i - 1) \o SubSeq(@, i + 1, Len(@))]

\* removePlayerFromList: players.filter(p => p.name !== name)
RemovePlayerFromList(a, name) ==
    [a EXCEPT !.players = SelectSeq(@, LAMBDA p : p.name # name)]

\* players.find(p => p.name === oldName): index of the first match, 0 if none.
FindPlayer(ps, name) ==
    IF \E i \in 1..Len(ps) : ps[i].name = name
    THEN CHOOSE i \in 1..Len(ps) :
            ps[i].name = name /\ \A j \in 1..(i - 1) : ps[j].name # name
    ELSE 0

\* onPlayerInfoUpdate: the roster item of the first match is rendered by
\* updatePlayerList, so playerItem is found whenever player is.
OnPlayerInfoUpdate(a, oldName, newName, newSkinId) ==
    LET i == FindPlayer(a.players, oldName) IN
    IF i = 0 THEN a
    ELSE LET p == a.players[i]
             n == IF newName # NoName THEN newName ELSE p.name
             s == IF newSkinId # NoSkin /\ newSkinId # p.skinId
                  THEN newSkinId ELSE p.skinId
         IN [a EXCEPT !.players[i] = Player(n, s)]

StartGameTimer(a) ==
    IF ~a.isHost \/ ~a.gameStarted THEN a
    ELSE LET t == FreshTimer(a.roundTimers) IN
         [a EXCEPT !.gameEndTimeout = t, !.roundTimers = @ \cup {t}]

StartGameArmsAlways(a) ==
    LET b == [a EXCEPT !.gameStarted = TRUE, !.roundStarted = TRUE,
                       !.roundEnds = 0]
        t == FreshTimer(b.roundTimers)
    IN [b EXCEPT !.gameEndTimeout = t, !.roundTimers = @ \cup {t}]

\* startGame: enters Running; the host also starts the round timer.
StartGame(a) ==
    LET b == [a EXCEPT !.gameStarted = TRUE, !.roundStarted = TRUE,
                       !.roundEnds = 0]
    IN IF b.isHost THEN StartGameTimer(b) ELSE b

\* endGame: leaves Running, cancels the timer gameEndTimeout names and
\* appends a result display.
\* The winner scan of endGame over the .player-cell elements in document
\* order: a cell wins when its counter is strictly above the best so far,
\* which starts at 0 with winner null.
RECURSIVE ScanWinner(_, _, _, _)
ScanWinner(cs, i, maxTaps, winner) ==
    IF i > Len(cs) THEN [winner |-> winner, maxTaps |-> maxTaps]
    ELSE IF cs[i].taps > maxTaps
         THEN ScanWinner(cs, i + 1, cs[i].taps, cs[i].name)
         ELSE ScanWinner(cs, i + 1, maxTaps, winner)

FindWinnerFromBelowZero(cs) == ScanWinner(cs, 1, 0 - 1, Null)

FindWinner(cs) == ScanWinner(cs, 1, 0, Null)

EndGame(a) ==
    [a EXCEPT !.gameStarted = FALSE,
              !.roundTimers = IF a.gameEndTimeout # 0
                              THEN @ \ {a.gameEndTimeout} ELSE @,
              !.gameEndTimeout = 0,
              !.winnerModals = @ + 1,
              !.result = FindWinner(a.cells),
              !.roundEnds = @ + 1]

ResetGameStateKeepRoster(a) ==
    [a EXCEPT !.gameStarting = FALSE, !.hostedClosed = @ \/ a.isHost,
              !.roomClosed = TRUE]

\* resetGameState: empties the roster and clears gameStarting.
ResetGameState(a) ==
    [a EXCEPT !.players = <<>>, !.gameStarting = FALSE,
              !.hostedClosed = @ \/ a.isHost, !.roomClosed = TRUE]

\* createPlayerCell(player.id, player.name): roster entries are pushed as
\* {name, skinId} and carry no id, so every cell id is "player-undefined".
CreatePlayerCell(playerId, playerName) == Cell(playerId, playerName, 0)

\* updatePlayerGrid: defined in js/index.js, which never calls it, so the
\* grid of a running page holds no cell.
UpdatePlayerGrid(a) ==
    [a EXCEPT !.cells =
        [i \in 1..Len(a.players) |->
            CreatePlayerCell(Undefined, a.players[i].name)]]

\* document.getElementById(`player-${playerId}`): the first cell with the id.
FindCell(cs, playerId) ==
    IF \E i \in 1..Len(cs) : cs[i].id = playerId
    THEN CHOOSE i \in 1..Len(cs) :
            cs[i].id = playerId /\ \A j \in 1..(i - 1) : cs[j].id # playerId
    ELSE 0

ShowTapEffect(a, playerId) ==
    LET i == FindCell(a.cells, playerId) IN
    IF i = 0 THEN a ELSE [a EXCEPT !.cells[i].taps = @ + 1]

OnGameStateUpdateAlways(a, m) == EndGame(a)

\* The onGameStateUpdate callback of js/index.js: endGame() when the
\* message carries gameEnded, nothing otherwise.
OnGameStateUpdate(a, m) == IF m.gameEnded THEN EndGame(a) ELSE a

\* The closure js/index.js registers under callback name cb, applied to
\* the arguments the socket handler passes from message m.
IndexCallback(cb, a, m) ==
    CASE cb = "onPlayerJoined" -> AddPlayerToList(a, m.name, m.skin)
      [] cb = "onPlayerLeft" -> RemovePlayerFromList(a, m.name)
      [] cb = "onPlayerInfoUpdate" ->
            OnPlayerInfoUpdate(a, m.name, m.newName, m.skin)
      [] cb = "onGameStarting" -> StartGame(a)
      [] cb = "onRoomClosed" -> ResetGameState(a)
      [] cb = "onTapEvent" -> ShowTapEffect(a, m.playerId)
      [] cb = "onGameStateUpdate" -> OnGameStateUpdate(a, m)
      [] OTHER -> a

\* ----------------------------------------------------------- the peer
NoPeer == [inRoom |-> FALSE, gameStarted |-> FALSE, inbox |-> 0]

\* The relay passes an updateGameState of this client on to the peer in
\* its room as gameStateUpdate.
Relay(sent, p) ==
    IF p.inRoom /\ \E k \in DOMAIN sent : sent[k].ev = "updateGameState"
    THEN [p EXCEPT !.inbox = @ + 1]
    ELSE p

\* ------------------------------------------- networking.js: socket state
VARIABLES
    sockets,          \* the socket objects io() has created, by creation order
    socket,           \* index of the socket the module variable names, 0 if unset
    pingInterval,     \* interval id the module variable holds, 0 if unset
    intervals,        \* armed heartbeat intervals: id -> ms until the next tick
    pongAge,          \* Date.now() - lastPongReceived, in ms
    reconnects,       \* pending setTimeout(connectToServer, 1000) timers
    callbacks,        \* the seven module-level callback variables
    lastRegistered    \* history: the argument of the latest setCallbacks

\* ------------------------------------------------ js/index.js: variables
VARIABLES
    players, isHost, gameStarting, gameStarted, gameEndTimeout,
    roundTimers, cells, winnerModals, roundStarted, roundEnds, hostedClosed,
    result, roomClosed,
    gameJoined,       \* #root carries the class game-joined
    errorMessage,     \* text of #error-message, as showError last set it
    joinControls,     \* #game-code and #join-button are displayed
    isMobileUser,     \* window.mobileAndTabletCheck() at load
    peer,             \* a second client, in the room this client created:
                      \* whether it is in the room, its gameStarted, and
                      \* the gameStateUpdate {gameEnded: true} messages the
                      \* relay has yet to deliver to it
    codeGen,          \* generateRoomCode: the code built so far, whether the
                      \* call has thrown a code away, and the code returned
    last              \* history: the handler that ran in the latest step

netVars == <<sockets, socket, pingInterval, intervals, pongAge, reconnects,
             callbacks, lastRegistered>>

pageVars == <<players, isHost, gameStarting, gameStarted, gameEndTimeout,
              roundTimers, cells, winnerModals, roundStarted, roundEnds,
              hostedClosed, result, roomClosed>>

domVars == <<gameJoined, errorMessage, joinControls>>

vars == <<netVars, pageVars, domVars, isMobileUser, codeGen, peer, last>>

PageState ==
    [players |-> players, isHost |-> isHost, gameStarting |-> gameStarting,
     gameStarted |-> gameStarted, gameEndTimeout |-> gameEndTimeout,
     roundTimers |-> roundTimers, cells |-> cells,
     winnerModals |-> winnerModals, roundStarted |-> roundStarted,
     roundEnds |-> roundEnds, hostedClosed |-> hostedClosed,
     result |-> result, roomClosed |-> roomClosed]

SetPage(a) ==
    /\ players' = a.players
    /\ isHost' = a.isHost
    /\ gameStarting' = a.gameStarting
    /\ gameStarted' = a.gameStarted
    /\ gameEndTimeout' = a.gameEndTimeout
    /\ roundTimers' = a.roundTimers
    /\ cells' = a.cells
    /\ winnerModals' = a.winnerModals
    /\ roundStarted' = a.roundStarted
    /\ roundEnds' = a.roundEnds
    /\ hostedClosed' = a.hostedClosed
    /\ result' = a.result
    /\ roomClosed' = a.roomClosed

\* The page stays within the bounds of the model.
PageInBounds(a) ==
    /\ Len(a.players) <= MaxPlayers
    /\ Cardinality(a.roundTimers) <= MaxTimers
    /\ a.winnerModals <= MaxModals

\* What the latest step was: the handler, the socket and message it ran
\* on, the callbacks it invoked, the events it emitted, and what it
\* started from: roster length, grid cells, the joined mark and the
\* once('roomError') listeners of the socket.
Last(kind, name, sock, msg, fired, sent) ==
    [kind |-> kind, name |-> name, sock |-> sock, msg |-> msg,
     fired |-> fired, sent |-> sent, pre |-> Len(players),
     preCells |-> cells, preJoined |-> gameJoined,
     preJoinErr |-> IF sock \in 1..Len(sockets) THEN sockets[sock].joinErr
                    ELSE 0]

\* A call of createRoom / joinRoom with the arguments its caller passed.
Queued(op, code, name, skin) ==
    [op |-> op, code |-> code, name |-> name, skin |-> skin]

NoCall == Queued("none", "", NoName, NoSkin)

\* The payload of a request: create-room {roomCode, hostSkin} and
\* join-room {roomCode, name, skinId}.
Data(roomCode, name, skin) ==
    [roomCode |-> roomCode, name |-> name, skin |-> skin]

NoData == Data("", NoName, NoSkin)

\* A packet emitted on socket sock; call is the createRoom / joinRoom call
\* it answers (history).
Packet(ev, sock, data, call) ==
    [ev |-> ev, sock |-> sock, data |-> data, call |-> call]

Emit(ev, sock) == Packet(ev, sock, NoData, NoCall)

\* A socket object: connection status and the listeners registered on it.
\*   setups       registrations by setupSocketEventHandlers (one listener
\*                each for pong, roomError, roomClosed, player-info-update,
\*                gameStarting, tapEvent, gameStateUpdate)
\*   roster       playerJoined (and playerLeft) listeners
\*   created      create-room was emitted on this socket
\*   onceConnect  once('connect') listeners, in registration order
\*   joinOk, joinErr   once('joinSuccess') / once('roomError') listeners
\*   sendBuffer   packets emitted while the socket was not connected,
\*                which socket.io sends when it connects
NewSocket ==
    [status |-> "connecting", setups |-> 0, roster |-> 0, created |-> FALSE,
     onceConnect |-> <<>>, joinOk |-> 0, joinErr |-> 0, sendBuffer |-> <<>>]

Connected(ss, cur) == cur # 0 /\ ss[cur].status = "connected"

ConnectToServerAlways(ss, cur) ==
    [sockets |-> Append(ss, NewSocket), socket |-> Len(ss) + 1]

\* connectToServer: a no-op on a connected socket, otherwise a new socket
\* replaces the module variable.
ConnectToServer(ss, cur) ==
    IF Connected(ss, cur) THEN [sockets |-> ss, socket |-> cur]
    ELSE [sockets |-> Append(ss, NewSocket), socket |-> Len(ss) + 1]

\* setupSocketEventHandlers: adds one more listener set to the current socket.
SetupSocketEventHandlers(ss, cur) ==
    IF cur = 0 THEN ss ELSE [ss EXCEPT ![cur].setups = @ + 1]

PerformCreateRoomNoOff(sk, roomCode) ==
    [sk EXCEPT !.roster = @ + 1, !.created = TRUE]

\* performCreateRoom: off() drops the roster listeners, then one of each
\* is registered again.
PerformCreateRoom(sk, roomCode) ==
    LET cleared == [sk EXCEPT !.roster = 0]
    IN [cleared EXCEPT !.roster = @ + 1, !.created = TRUE]

PerformJoin(sk, roomCode, playerName, skinId) ==
    [sk EXCEPT !.joinOk = @ + 1, !.joinErr = @ + 1]

\* roomCode.toUpperCase()
ToUpperCase(code) == IF code = "abcd" THEN "ABCD" ELSE code

\* The payload performCreateRoom(roomCode, hostSkin) emits.
CreateRoomData(roomCode, hostSkin) == Data(roomCode, NoName, hostSkin)

\* The payload performJoin(roomCode, playerName, skinId) emits.
JoinRoomData(roomCode, playerName, skinId) ==
    Data(ToUpperCase(roomCode), playerName, skinId)

\* The packet the perform function emits for call h on socket cur.
\* createRoom(roomCode) takes one parameter and calls
\* performCreateRoom(roomCode): hostSkin arrives there undefined.
RequestPacket(h, cur) ==
    IF h.op = "create"
    THEN Packet("create-room", cur, CreateRoomData(h.code, NoSkin), h)
    ELSE Packet("join-room", cur, JoinRoomData(h.code, h.name, h.skin), h)

\* socket.emit: a packet emitted on a socket that is not connected waits
\* in its send buffer.
SocketEmit(sk, pkt) ==
    IF sk.status = "connected" THEN sk
    ELSE [sk EXCEPT !.sendBuffer = Append(@, pkt)]

\* The once('connect') listeners of a socket run in order, each on the
\* socket the module variable names when it runs.
RECURSIVE RunOnceConnect(_, _, _)
RunOnceConnect(ss, cur, q) ==
    IF q = <<>> THEN ss
    ELSE LET h == Head(q)
             sk == IF h.op = "create" THEN PerformCreateRoom(ss[cur], h.code)
                   ELSE PerformJoin(ss[cur], h.code, h.name, h.skin)
         IN RunOnceConnect([ss EXCEPT ![cur] = SocketEmit(sk, RequestPacket(h, cur))],
                           cur, Tail(q))

\* The packets those listeners put on the wire at once.
OnceEmits(ss, q, cur) ==
    IF ss[cur].status = "connected"
    THEN [i \in 1..Len(q) |-> RequestPacket(q[i], cur)]
    ELSE <<>>

SendWhenConnectedNoGuard(ss, cur, ev) ==
    IF cur = 0 THEN [sockets |-> ss, sent |-> <<>>]
    ELSE [sockets |-> [ss EXCEPT ![cur] = SocketEmit(@, Emit(ev, cur))],
          sent |-> IF Connected(ss, cur) THEN <<Emit(ev, cur)>> ELSE <<>>]

\* sendTap / updateGameState / updatePlayerInfo: emit when the module
\* variable names a connected socket, and do nothing otherwise.
SendWhenConnected(ss, cur, ev) ==
    [sockets |-> ss,
     sent |-> IF Connected(ss, cur) THEN <<Emit(ev, cur)>> ELSE <<>>]

ClearIntervalNoop(ivs, id) == ivs

\* clearInterval(id)
ClearInterval(ivs, id) == [i \in (DOMAIN ivs) \ {id} |-> ivs[i]]

SocketsInBounds(ss) ==
    /\ Len(ss) <= MaxSockets
    /\ \A i \in 1..Len(ss) :
        /\ ss[i].setups <= MaxSetups
        /\ ss[i].roster <= MaxSetups
        /\ ss[i].joinOk <= MaxSetups
        /\ ss[i].joinErr <= MaxSetups
        /\ Len(ss[i].sendBuffer) <= MaxSetups

Init ==
    /\ sockets = <<>>
    /\ socket = 0
    /\ pingInterval = 0
    /\ intervals = <<>>
    /\ pongAge = 0
    /\ reconnects = 0
    /\ callbacks = IndexCallbacks
    /\ lastRegistered = IndexCallbacks
    /\ players = <<>>
    /\ isHost = FALSE
    /\ gameStarting = FALSE
    /\ gameStarted = FALSE
    /\ gameEndTimeout = 0
    /\ roundTimers = {}
    /\ cells = <<>>
    /\ winnerModals = 0
    /\ roundStarted = FALSE
    /\ roundEnds = 0
    /\ hostedClosed = FALSE
    /\ result = [winner |-> Null, maxTaps |-> 0]
    /\ roomClosed = FALSE
    /\ gameJoined = FALSE
    /\ errorMessage = ""
    /\ joinControls = TRUE
    /\ isMobileUser \in BOOLEAN
    /\ codeGen = NoCode
    /\ peer = NoPeer
    /\ last = Last("load", "none", 0, NoMsg, <<>>, <<>>)

\* ------------------------------------------------------------- dispatch
\* Listeners of socket sk that dispatch event type to a callback.
Listeners(sk, type) ==
    IF type \in {"playerJoined", "playerLeft"} THEN sk.roster
    ELSE IF CallbackOf(type) # "none" THEN sk.setups
    ELSE 0

RECURSIVE Repeat(_, _, _, _)
Repeat(cb, a, m, n) ==
    IF n = 0 THEN a ELSE Repeat(cb, IndexCallback(cb, a, m), m, n - 1)

\* The text the once('roomError') listener of performJoin shows.
JoinErrorTextFixed(message) == "Failed to join room"

JoinErrorText(message) ==
    IF message # "" THEN message ELSE "Failed to join room"

\* The text of #error-message after the listeners of message m on socket
\* sk have run.  The once('roomError') listener of performJoin shows the
\* text, displays the join controls again and then reads .style of
\* #ready-button, an element the page does not have: the TypeError ends
\* the dispatch, so later listeners of the event do not run and a second
\* once listener stays registered.
ShowErrorOn(sk, m, shown) ==
    CASE m.type = "roomError" /\ sk.joinErr > 0 -> JoinErrorText(m.message)
      [] m.type = "roomError" /\ sk.setups > 0 -> m.message
      [] m.type = "roomClosed" /\ sk.setups > 0 -> "Host has disconnected"
      [] m.type = "joinSuccess" /\ sk.joinOk > 0 -> "Successfully joined room!"
      [] OTHER -> shown

\* performJoin shows 'Joining room...' when it runs.
ShowAfterPerform(q, shown) ==
    IF \E i \in DOMAIN q : q[i].op = "join" THEN "Joining room..." ELSE shown

\* The relay delivers message m on connected socket s: every listener of
\* the event runs, and each one that finds its callback variable set
\* calls it.
Deliver(s, m) ==
    /\ s \in 1..Len(sockets)
    /\ sockets[s].status = "connected"
    /\ LET sk == sockets[s]
           cb == CallbackOf(m.type)
           owner == IF cb = "none" THEN Undefined ELSE callbacks[cb]
           calls == IF owner = Undefined THEN 0 ELSE Listeners(sk, m.type)
           a == IF owner = "index" THEN Repeat(cb, PageState, m, calls)
                ELSE PageState
       IN /\ PageInBounds(a)
          /\ SetPage(a)
          /\ pongAge' = IF m.type = "pong" /\ sk.setups > 0 THEN 0 ELSE pongAge
          /\ gameJoined' = (gameJoined \/ (m.type = "joinSuccess" /\ sk.joinOk > 0))
          /\ errorMessage' = ShowErrorOn(sk, m, errorMessage)
          /\ joinControls' =
                IF m.type = "roomError" /\ sk.joinErr > 0 THEN TRUE
                ELSE IF m.type = "joinSuccess" /\ sk.joinOk > 0 THEN FALSE
                ELSE joinControls
          /\ sockets' = [sockets EXCEPT
                ![s].joinOk = IF m.type = "joinSuccess" THEN 0 ELSE @,
                ![s].joinErr = IF m.type = "roomError" /\ @ > 0
                               THEN @ - 1 ELSE @]
          /\ last' = Last("msg", m.type, s, m,
                          [k \in 1..calls |-> [cb |-> cb, owner |-> owner]], <<>>)
    /\ UNCHANGED <<socket, pingInterval, intervals, reconnects, callbacks,
                   lastRegistered, isMobileUser, codeGen, peer>>

\* ------------------------------------------------- transport and timers
\* 'connect' fires on socket s (the first connect, or socket.io's automatic
\* reconnect of the same socket): the handler of connectToServer runs, then
\* the once('connect') listeners, and socket.io sends the packets that
\* waited in the send buffer of s.
SocketConnect(s) ==
    /\ s \in 1..Len(sockets)
    /\ sockets[s].status = "connecting"
    /\ LET cleared == IF pingInterval # 0
                      THEN ClearInterval(intervals, pingInterval) ELSE intervals
           id == FreshTimer(DOMAIN cleared)
           armed == (id :> PING_INTERVAL) @@ cleared
           q == sockets[s].onceConnect
           s1 == [sockets EXCEPT ![s].status = "connected",
                                 ![s].onceConnect = <<>>]
           s2 == SetupSocketEventHandlers(s1, socket)
           s3 == RunOnceConnect(s2, socket, q)
           s4 == [s3 EXCEPT ![s].sendBuffer = <<>>]
       IN /\ SocketsInBounds(s3)
          /\ Cardinality(DOMAIN armed) <= MaxTimers
          /\ sockets' = s4
          /\ intervals' = armed
          /\ pingInterval' = id
          /\ pongAge' = 0
          /\ last' = Last("connect", "connect", s, NoMsg, <<>>,
                          OnceEmits(s1, q, socket) \o s3[s].sendBuffer)
          /\ errorMessage' = ShowAfterPerform(q, errorMessage)
    /\ UNCHANGED <<socket, reconnects, callbacks, lastRegistered, pageVars,
                   gameJoined, joinControls, isMobileUser, codeGen, peer>>

\* The transport of connected socket s drops; socket.io reconnects the
\* same socket object on its own.
SocketDrop(s) ==
    /\ s \in 1..Len(sockets)
    /\ sockets[s].status = "connected"
    /\ sockets' = [sockets EXCEPT ![s].status = "connecting"]
    /\ last' = Last("drop", "disconnect", s, NoMsg, <<>>, <<>>)
    /\ UNCHANGED <<socket, pingInterval, intervals, pongAge, reconnects,
                   callbacks, lastRegistered, pageVars, domVars,
                   isMobileUser, codeGen, peer>>

\* socket.io gives up on socket s after its reconnectionAttempts: the
\* socket stays closed. networking.js registers no listener for
\* connect_error, reconnect_failed or disconnect, so no handler runs.
SocketGiveUp(s) ==
    /\ s \in 1..Len(sockets)
    /\ sockets[s].status = "connecting"
    /\ sockets' = [sockets EXCEPT ![s].status = "closed"]
    /\ last' = Last("giveup", "reconnect_failed", s, NoMsg, <<>>, <<>>)
    /\ UNCHANGED <<socket, pingInterval, intervals, pongAge, reconnects,
                   callbacks, lastRegistered, pageVars, domVars,
                   isMobileUser, codeGen, peer>>

LinkDeadAtThreshold(age) == age >= PONG_TIMEOUT

\* Date.now() - lastPongReceived > 60000
LinkDead(age) == age > PONG_TIMEOUT

\* A tick of heartbeat interval i.
HeartbeatTick(i) ==
    /\ i \in DOMAIN intervals
    /\ intervals[i] = 0
    /\ LET rearmed == [intervals EXCEPT ![i] = PING_INTERVAL]
           up == sockets[socket].status = "connected"
           dead == up /\ LinkDead(pongAge)
       IN /\ intervals' = IF dead THEN ClearInterval(rearmed, pingInterval)
                          ELSE rearmed
          /\ sockets' = IF dead THEN [sockets EXCEPT ![socket].status = "closed"]
                        ELSE sockets
          /\ reconnects' = IF dead THEN reconnects + 1 ELSE reconnects
          /\ last' = Last("heartbeat", IF dead THEN "dead" ELSE "alive", socket,
                          NoMsg, <<>>,
                          IF up THEN <<Emit("ping", socket)>> ELSE <<>>)
    /\ UNCHANGED <<socket, pingInterval, pongAge, callbacks, lastRegistered,
                   pageVars, domVars, isMobileUser, codeGen, peer>>

\* The timer of a heartbeat-detected death fires: connectToServer().
ReconnectFire ==
    /\ reconnects > 0
    /\ LET n == ConnectToServer(sockets, socket)
       IN /\ SocketsInBounds(n.sockets)
          /\ sockets' = n.sockets
          /\ socket' = n.socket
    /\ reconnects' = reconnects - 1
    /\ last' = Last("timer", "reconnect", socket', NoMsg, <<>>, <<>>)
    /\ UNCHANGED <<pingInterval, intervals, pongAge, callbacks, lastRegistered,
                   pageVars, domVars, isMobileUser, codeGen, peer>>

Min(x, y) == IF x < y THEN x ELSE y

\* Time passes by one step.  A due heartbeat tick runs first, and so does
\* a reconnect timer whose delay is shorter than the step.
Advance ==
    /\ DOMAIN intervals # {}
    /\ \A i \in DOMAIN intervals : intervals[i] >= TimeStep
    /\ reconnects = 0 \/ RECONNECT_DELAY >= TimeStep
    /\ intervals' = [i \in DOMAIN intervals |-> intervals[i] - TimeStep]
    /\ pongAge' = Min(pongAge + TimeStep, PONG_TIMEOUT + TimeStep)
    /\ last' = Last("time", "advance", 0, NoMsg, <<>>, <<>>)
    /\ UNCHANGED <<sockets, socket, pingInterval, reconnects, callbacks,
                   lastRegistered, pageVars, domVars, isMobileUser, codeGen, peer>>

\* ------------------------------------------------- networkManager calls
CallConnectToServer ==
    /\ LET n == ConnectToServer(sockets, socket)
       IN /\ SocketsInBounds(n.sockets)
          /\ sockets' = n.sockets
          /\ socket' = n.socket
    /\ last' = Last("call", "connectToServer", socket', NoMsg, <<>>, <<>>)
    /\ UNCHANGED <<pingInterval, intervals, pongAge, reconnects, callbacks,
                   lastRegistered, pageVars, domVars, isMobileUser, codeGen, peer>>

\* createRoom / joinRoom: on a connected socket the request goes out at
\* once; otherwise connectToServer() runs and the request waits as a
\* once('connect') listener of the socket the module variable then names.
Request(ss, cur, q) ==
    IF Connected(ss, cur)
    THEN [sockets |-> RunOnceConnect(ss, cur, <<q>>), socket |-> cur,
          sent |-> OnceEmits(ss, <<q>>, cur), ran |-> <<q>>]
    ELSE LET n == ConnectToServer(ss, cur)
         IN [sockets |-> [n.sockets EXCEPT
                            ![n.socket].onceConnect = Append(@, q)],
             socket |-> n.socket, sent |-> <<>>, ran |-> <<>>]

CreateRoom(roomCode, hostSkin) ==
    /\ LET r == Request(sockets, socket, Queued("create", roomCode, NoName, hostSkin))
       IN /\ SocketsInBounds(r.sockets)
          /\ sockets' = r.sockets
          /\ socket' = r.socket
          /\ last' = Last("call", "createRoom", r.socket, NoMsg, <<>>, r.sent)
    /\ UNCHANGED <<pingInterval, intervals, pongAge, reconnects, callbacks,
                   lastRegistered, pageVars, domVars, isMobileUser, codeGen, peer>>

JoinRoom(roomCode, playerName, skinId) ==
    /\ LET r == Request(sockets, socket, Queued("join", roomCode, playerName, skinId))
       IN /\ SocketsInBounds(r.sockets)
          /\ sockets' = r.sockets
          /\ socket' = r.socket
          /\ last' = Last("call", "joinRoom", r.socket, NoMsg, <<>>, r.sent)
          /\ errorMessage' = ShowAfterPerform(r.ran, errorMessage)
    /\ UNCHANGED <<pingInterval, intervals, pongAge, reconnects, callbacks,
                   lastRegistered, pageVars, gameJoined, joinControls,
                   isMobileUser, codeGen, peer>>

SetCallbacks(cbs) ==
    /\ callbacks' = SetCallbacksAssign(callbacks, cbs)
    /\ lastRegistered' = cbs
    /\ sockets' = SetupSocketEventHandlers(sockets, socket)
    /\ SocketsInBounds(sockets')
    /\ last' = Last("call", "setCallbacks", socket, NoMsg, <<>>, <<>>)
    /\ UNCHANGED <<socket, pingInterval, intervals, pongAge, reconnects,
                   pageVars, domVars, isMobileUser, codeGen, peer>>

\* ------------------------------------------------ js/index.js: handlers
\* Click on #create-lobby (its listener is added on desktop only):
\* generateRoomCode(), networkManager.createRoom(code, skin), then
\* addPlayer('You (Host)', skin, true), which sets isHost and returns
\* before the roster push.
CreateLobbyClick(code, skin) ==
    /\ ~isMobileUser
    /\ LET r == Request(sockets, socket, Queued("create", code, NoName, skin))
       IN /\ SocketsInBounds(r.sockets)
          /\ sockets' = r.sockets
          /\ socket' = r.socket
          /\ last' = Last("click", "create-lobby", r.socket, NoMsg, <<>>, r.sent)
    /\ isHost' = TRUE
    /\ roomClosed' = FALSE
    /\ UNCHANGED <<pingInterval, intervals, pongAge, reconnects, callbacks,
                   lastRegistered, players, gameStarting, gameStarted,
                   gameEndTimeout, roundTimers, cells, winnerModals,
                   roundStarted, roundEnds, hostedClosed, result, domVars,
                   isMobileUser, codeGen, peer>>

\* Click on #join-button with a room code of gameCodeLength characters.
JoinClick(roomCode, playerName, skinId) ==
    /\ LET r == Request(sockets, socket, Queued("join", roomCode, playerName, skinId))
       IN /\ SocketsInBounds(r.sockets)
          /\ sockets' = r.sockets
          /\ socket' = r.socket
          /\ last' = Last("click", "join-button", r.socket, NoMsg, <<>>, r.sent)
          /\ errorMessage' = ShowAfterPerform(r.ran, errorMessage)
    /\ SetPage([PageState EXCEPT !.roomClosed = FALSE])
    /\ UNCHANGED <<pingInterval, intervals, pongAge, reconnects, callbacks,
                   lastRegistered, gameJoined, joinControls, isMobileUser, codeGen, peer>>

\* sendTap(), updateGameState(state), updatePlayerInfo(data)
Send(name, ev) ==
    /\ LET r == SendWhenConnected(sockets, socket, ev)
       IN /\ SocketsInBounds(r.sockets)
          /\ sockets' = r.sockets
          /\ last' = Last("call", name, socket, NoMsg, <<>>, r.sent)
    /\ UNCHANGED <<socket, pingInterval, intervals, pongAge, reconnects,
                   callbacks, lastRegistered, pageVars, domVars, isMobileUser, codeGen, peer>>

SendTap == Send("sendTap", "playerTap")

UpdateGameState == Send("updateGameState", "updateGameState")

UpdatePlayerInfo == Send("updatePlayerInfo", "updatePlayerInfo")

\* Round timer t expires: networkManager.updateGameState({gameEnded: true}),
\* which emits only on a connected socket, then endGame().
RoundTimerFire(t) ==
    /\ t \in roundTimers
    /\ LET a == EndGame([PageState EXCEPT !.roundTimers = @ \ {t}])
           r == SendWhenConnected(sockets, socket, "updateGameState")
       IN /\ PageInBounds(a)
          /\ SetPage(a)
          /\ SocketsInBounds(r.sockets)
          /\ sockets' = r.sockets
          /\ last' = Last("timer", "gameEnd", socket, NoMsg, <<>>, r.sent)
          /\ peer' = Relay(r.sent, peer)
          /\ peer'.inbox <= MaxTimers
    /\ UNCHANGED <<socket, pingInterval, intervals, pongAge, reconnects,
                   callbacks, lastRegistered, domVars, isMobileUser, codeGen>>

TouchStartSendsAlways(running, ss, cur) ==
    SendWhenConnected(ss, cur, "playerTap")

\* The touchstart listener: nothing unless gameStarted, else sendTap().
TouchStartSends(running, ss, cur) ==
    IF ~running THEN [sockets |-> ss, sent |-> <<>>]
    ELSE SendWhenConnected(ss, cur, "playerTap")

\* A touchstart on the document; the listener is added on mobile only.
TouchStart ==
    /\ isMobileUser
    /\ LET r == TouchStartSends(gameStarted, sockets, socket)
       IN /\ SocketsInBounds(r.sockets)
          /\ sockets' = r.sockets
          /\ last' = Last("gesture", "touchstart", socket, NoMsg, <<>>, r.sent)
    /\ UNCHANGED <<socket, pingInterval, intervals, pongAge, reconnects,
                   callbacks, lastRegistered, pageVars, domVars, isMobileUser, codeGen, peer>>

\* Click on #start-game-button; addPlayer adds the listener when the page
\* becomes host. players.length >= 0 always holds and networkManager is
\* defined, so the listener reaches socket.emit('gameStart'). js/index.js
\* is a module and declares no socket, and the socket of networking.js is
\* local to that module: the statement throws a ReferenceError, nothing
\* is emitted and startGame() is not reached.
StartGameClick ==
    /\ isHost
    /\ last' = Last("click", "start-game-button", socket, NoMsg, <<>>, <<>>)
    /\ UNCHANGED <<netVars, pageVars, domVars, isMobileUser, codeGen, peer>>

\* generateRoomCode, one pass of the for loop: a random letter is
\* appended to code. The first pass of a call starts from the empty code.
GenerateDraw(i) ==
    /\ Len(codeGen.code) < CodeLength
    /\ codeGen' = IF codeGen.returned # <<>>
                  THEN [NoCode EXCEPT !.code = <<CharAt(letters, i)>>]
                  ELSE [codeGen EXCEPT !.code = Append(@, CharAt(letters, i))]
    /\ UNCHANGED <<netVars, pageVars, domVars, isMobileUser, last, peer>>

\* generateRoomCode, after the for loop: the code is returned unless it
\* includes a bad word, and then the while loop starts over.
GenerateCheck ==
    /\ Len(codeGen.code) = CodeLength
    /\ codeGen' = IF IsBad(codeGen.code)
                  THEN [codeGen EXCEPT !.code = <<>>, !.retried = TRUE]
                  ELSE [codeGen EXCEPT !.code = <<>>, !.returned = codeGen.code]
    /\ last' = Last("call", "generateRoomCode", socket, NoMsg, <<>>, <<>>)
    /\ UNCHANGED <<netVars, pageVars, domVars, isMobileUser, peer>>

\* create-room has been emitted by this client.
HasCreatedRoom == \E s \in 1..Len(sockets) : sockets[s].created

\* The peer is admitted to the room this client created.
PeerJoin ==
    /\ HasCreatedRoom
    /\ Connected(sockets, socket)
    /\ ~peer.inRoom
    /\ peer' = [peer EXCEPT !.inRoom = TRUE]
    /\ UNCHANGED <<netVars, pageVars, domVars, isMobileUser, codeGen, last>>

\* gameStarting reaches the peer: its onGameStarting callback runs
\* startGame(); the peer is no host and arms no timer.
PeerGameStarting ==
    /\ peer.inRoom
    /\ peer' = [peer EXCEPT !.gameStarted = TRUE]
    /\ UNCHANGED <<netVars, pageVars, domVars, isMobileUser, codeGen, last>>

\* gameStateUpdate {gameEnded: true} reaches the peer: its
\* onGameStateUpdate callback runs endGame().
PeerGameStateUpdate ==
    /\ peer.inbox > 0
    /\ peer' = [peer EXCEPT !.inbox = @ - 1, !.gameStarted = FALSE]
    /\ UNCHANGED <<netVars, pageVars, domVars, isMobileUser, codeGen, last>>

\* ------------------------------------------------------- specifications
M(type) == Msg(type, NoName, NoName, NoSkin, Undefined, FALSE)

\* roomError {message}
RoomError(message) == [M("roomError") EXCEPT !.message = message]

Reasons == {"Room is full", ""}

\* The heartbeat: connects, transport drops, pongs, ticks and time.
NextHeartbeat ==
    \/ CallConnectToServer
    \/ \E s \in 1..MaxSockets : SocketConnect(s)
    \/ \E s \in 1..MaxSockets : SocketDrop(s)
    \/ \E s \in 1..MaxSockets : Deliver(s, M("pong"))
    \/ \E i \in 1..MaxTimers : HeartbeatTick(i)
    \/ ReconnectFire
    \/ Advance

InitDesktop == Init /\ ~isMobileUser

SpecHeartbeat == InitDesktop /\ [][NextHeartbeat]_vars

DispatchMsgs ==
    {Msg("playerJoined", "ann", NoName, 1, Undefined, FALSE),
     Msg("playerLeft", "ann", NoName, NoSkin, Undefined, FALSE),
     Msg("player-info-update", "ann", "bob", 2, Undefined, FALSE),
     M("tapEvent"), M("roomClosed")}

\* Event dispatch: room creation, callback registration, connects and
\* the relay's messages.
NextDispatch ==
    \/ \E c \in Codes : CreateRoom(c, 1)
    \/ \E cbs \in CallbackSets : SetCallbacks(cbs)
    \/ \E s \in 1..MaxSockets : SocketConnect(s)
    \/ \E s \in 1..MaxSockets : SocketDrop(s)
    \/ \E s \in 1..MaxSockets, m \in DispatchMsgs : Deliver(s, m)

SpecDispatch == InitDesktop /\ [][NextDispatch]_vars

RegisterMsgs ==
    {Msg("playerJoined", "ann", NoName, 1, Undefined, FALSE), M("tapEvent")}

\* Registration: room creation and callback replacement on a session
\* whose connect event may fire again.
NextRegister ==
    \/ \E c \in Codes : CreateRoom(c, 1)
    \/ \E cbs \in CallbackSets : SetCallbacks(cbs)
    \/ \E s \in 1..MaxSockets : SocketConnect(s)
    \/ \E s \in 1..MaxSockets : SocketDrop(s)
    \/ \E s \in 1..MaxSockets, m \in RegisterMsgs : Deliver(s, m)

SpecRegister == InitDesktop /\ [][NextRegister]_vars

RoundStateMsgs ==
    {M("gameStarting"), M("roomClosed")}
    \cup {Msg("gameStateUpdate", NoName, NoName, NoSkin, Undefined, e) : e \in BOOLEAN}

\* The round on a desktop page: lobby creation, start, end and reset.
NextRound ==
    \/ \E c \in Codes : CreateLobbyClick(c, 1)
    \/ \E s \in 1..MaxSockets : SocketConnect(s)
    \/ \E s \in 1..MaxSockets, m \in RoundStateMsgs : Deliver(s, m)
    \/ \E t \in 1..MaxTimers : RoundTimerFire(t)

SpecRound == InitDesktop /\ [][NextRound]_vars

LobbyMsgs ==
    {Msg("playerJoined", n, NoName, 1, Undefined, FALSE) : n \in Names}
    \cup {M("roomClosed"), M("joinSuccess"), M("gameStarting")}

\* The lobby: create, join, roster and the room-closed reset.
NextLobby ==
    \/ \E c \in Codes : CreateLobbyClick(c, 1)
    \/ \E c \in Codes : JoinClick(c, "ann", 1)
    \/ \E s \in 1..MaxSockets : SocketConnect(s)
    \/ \E s \in 1..MaxSockets, m \in LobbyMsgs : Deliver(s, m)

SpecLobby == InitDesktop /\ [][NextLobby]_vars

\* Requests: createRoom, joinRoom and connectToServer calls on a session
\* whose heartbeat may find the link dead.
NextRequest ==
    \/ \E c \in Codes, k \in Skins : CreateRoom(c, k)
    \/ \E c \in Codes : JoinRoom(c, "ann", 1)
    \/ CallConnectToServer
    \/ \E s \in 1..MaxSockets : SocketConnect(s)
    \/ \E i \in 1..MaxTimers : HeartbeatTick(i)
    \/ ReconnectFire
    \/ Advance

SpecRequest == InitDesktop /\ [][NextRequest]_vars

\* Joining: join clicks, connects, callback registration and the relay's
\* answers.
NextJoin ==
    \/ \E c \in Codes : JoinClick(c, "ann", 1)
    \/ SetCallbacks(IndexCallbacks)
    \/ \E s \in 1..MaxSockets : SocketConnect(s)
    \/ \E s \in 1..MaxSockets, r \in Reasons : Deliver(s, RoomError(r))
    \/ \E s \in 1..MaxSockets : Deliver(s, M("joinSuccess"))

InitMobile == Init /\ isMobileUser

SpecJoin == InitMobile /\ [][NextJoin]_vars

\* The sending calls on a page that joins a room, whose transport may
\* drop and come back.
NextSend ==
    \/ \E c \in Codes : JoinClick(c, "ann", 1)
    \/ \E s \in 1..MaxSockets : SocketConnect(s)
    \/ \E s \in 1..MaxSockets : SocketDrop(s)
    \/ SendTap
    \/ UpdateGameState
    \/ UpdatePlayerInfo

SpecSend == InitMobile /\ [][NextSend]_vars

TeardownMsgs ==
    {Msg("player-info-update", "ann", "bob", 2, Undefined, FALSE),
     M("joinSuccess"), M("roomClosed")}

\* Room teardown on a page that joined a room: the room-closed signal and
\* the messages of the room that arrive around it.
NextTeardown ==
    \/ \E c \in Codes : JoinClick(c, "ann", 1)
    \/ \E s \in 1..MaxSockets : SocketConnect(s)
    \/ \E s \in 1..MaxSockets : SocketDrop(s)
    \/ \E s \in 1..MaxSockets, m \in TeardownMsgs : Deliver(s, m)

SpecTeardown == InitMobile /\ [][NextTeardown]_vars

\* The start of a round on a host page: the start button, the
\* gameStarting signal and the round timer.
NextStart ==
    \/ \E c \in Codes : CreateLobbyClick(c, 1)
    \/ \E s \in 1..MaxSockets : SocketConnect(s)
    \/ StartGameClick
    \/ \E s \in 1..MaxSockets : Deliver(s, M("gameStarting"))
    \/ \E t \in 1..MaxTimers : RoundTimerFire(t)

SpecStart == InitDesktop /\ [][NextStart]_vars

\* Room codes: calls of generateRoomCode.
NextCode ==
    \/ \E i \in RandomIndex : GenerateDraw(i)
    \/ GenerateCheck

SpecCode == InitDesktop /\ [][NextCode]_vars

\* Connect failure: requests on a session whose connect, or reconnect
\* after a drop, may never succeed.
NextFailure ==
    \/ \E c \in Codes : CreateRoom(c, 1)
    \/ \E c \in Codes : JoinRoom(c, "ann", 1)
    \/ \E s \in 1..MaxSockets : SocketConnect(s)
    \/ \E s \in 1..MaxSockets : SocketDrop(s)
    \/ \E s \in 1..MaxSockets : SocketGiveUp(s)

SpecFailure == InitDesktop /\ [][NextFailure]_vars

\* The roster of a host page: joins, leaves and changes of name and skin.
NextRoster ==
    \/ \E c \in Codes : CreateLobbyClick(c, 1)
    \/ \E s \in 1..MaxSockets : SocketConnect(s)
    \/ \E s \in 1..MaxSockets, m \in RosterMsgs : Deliver(s, m)

SpecRoster == InitDesktop /\ [][NextRoster]_vars

\* A round with a second client: the host's page, its transport, the
\* round timer and what the relay delivers to the peer. A round is
\* started only while the page can still show its result.
NextLive ==
    \/ \E c \in Codes : CreateLobbyClick(c, 1)
    \/ \E s \in 1..MaxSockets : SocketConnect(s)
    \/ \E s \in 1..MaxSockets : SocketDrop(s)
    \/ \E s \in 1..MaxSockets :
            /\ s \in 1..Len(sockets)
            /\ winnerModals + Cardinality(roundTimers) + sockets[s].setups
                    <= MaxModals
            /\ Deliver(s, M("gameStarting"))
    \/ \E t \in 1..MaxTimers : RoundTimerFire(t)
    \/ PeerJoin
    \/ PeerGameStarting
    \/ PeerGameStateUpdate

\* Timers fire and the relay delivers what it was sent.
FairLive ==
    /\ WF_vars(\E t \in 1..MaxTimers : RoundTimerFire(t))
    /\ WF_vars(PeerGameStateUpdate)

SpecLive == InitDesktop /\ [][NextLive]_vars /\ FairLive

OwnerMsgs ==
    {M("gameStarting"),
     Msg("gameStateUpdate", NoName, NoName, NoSkin, Undefined, TRUE)}

\* Timer ownership: a page that joins a room, or creates one, and the
\* round signals it receives.
NextOwner ==
    \/ \E c \in Codes : JoinClick(c, "ann", 1)
    \/ \E c \in Codes : CreateLobbyClick(c, 1)
    \/ \E s \in 1..MaxSockets : SocketConnect(s)
    \/ \E s \in 1..MaxSockets, m \in OwnerMsgs : Deliver(s, m)
    \/ \E t \in 1..MaxTimers : RoundTimerFire(t)

SpecOwner == Init /\ [][NextOwner]_vars

\* The tap gesture on a mobile page that joins a room and plays a round.
NextGesture ==
    \/ \E c \in Codes : JoinClick(c, "ann", 1)
    \/ \E s \in 1..MaxSockets : SocketConnect(s)
    \/ \E s \in 1..MaxSockets : Deliver(s, M("gameStarting"))
    \/ \E s \in 1..MaxSockets :
            Deliver(s, Msg("gameStateUpdate", NoName, NoName, NoSkin, Undefined, TRUE))
    \/ TouchStart

SpecGesture == InitMobile /\ [][NextGesture]_vars

TapMsgs ==
    {Msg("playerJoined", "ann", NoName, 1, Undefined, FALSE),
     M("gameStarting"),
     Msg("gameStateUpdate", NoName, NoName, NoSkin, Undefined, TRUE)}
    \cup {Msg("tapEvent", NoName, NoName, NoSkin, p, FALSE) : p \in PlayerIds}

\* Taps as the host page sees them: the roster, the round messages and
\* the tap events of the peers.
NextTap ==
    \/ \E c \in Codes : CreateLobbyClick(c, 1)
    \/ \E s \in 1..MaxSockets : SocketConnect(s)
    \/ \E s \in 1..MaxSockets, m \in TapMsgs : Deliver(s, m)
    \/ \E t \in 1..MaxTimers : RoundTimerFire(t)

SpecTap == InitDesktop /\ [][NextTap]_vars

Next ==
    \/ NextRequest
    \/ NextJoin
    \/ NextSend
    \/ NextGesture
    \/ NextTeardown
    \/ NextOwner
    \/ NextStart
    \/ NextCode
    \/ NextFailure
    \/ NextRoster
    \/ NextLive
    \/ NextTap
    \/ NextHeartbeat
    \/ NextDispatch
    \/ NextRegister
    \/ NextRound
    \/ NextLobby
    \/ \E c \in Codes, n \in Names, k \in Skins : JoinRoom(c, n, k)
    \/ \E s \in 1..MaxSockets, m \in RosterMsgs \cup SessionMsgs \cup RoundMsgs :
            Deliver(s, m)

Spec == Init /\ [][Next]_vars

\* --------------------------------------------------------------- claims
\* The latest step was the dispatch of event type to at least one callback.
Dispatched(type) ==
    last.kind = "msg" /\ last.name = type /\ last.fired # <<>>

\* C1: every playerJoined, playerLeft and player-info-update message that
\* arrives on a socket holding a listener for it, while its callback is
\* registered, invokes that callback exactly once.
C1_RosterEventFiresOnce ==
    (/\ last.kind = "msg"
     /\ last.name \in RosterEvents
     /\ Listeners(sockets[last.sock], last.name) > 0
     /\ callbacks[CallbackOf(last.name)] # Undefined)
        => Len(last.fired) = 1

\* C2: a playerJoined message relayed to a socket on which the host has
\* created a room invokes the host's onPlayerJoined exactly once and
\* appends exactly one roster entry, with the peer's name and skin.
C2_JoinFiresOnceAndAppends ==
    (/\ last.kind = "msg"
     /\ last.name = "playerJoined"
     /\ sockets[last.sock].created
     /\ callbacks["onPlayerJoined"] = "index")
        => /\ last.fired = <<[cb |-> "onPlayerJoined", owner |-> "index"]>>
           /\ Len(players) = last.pre + 1
           /\ players[Len(players)] = Player(last.msg.name, last.msg.skin)

C2_Witness ==
    /\ Dispatched("playerJoined")
    /\ sockets[last.sock].created
    /\ callbacks["onPlayerJoined"] = "index"
    /\ Len(players) = 2
    /\ players[2] = Player("ann", 1)

\* No socket holds more than one listener per event, so every message
\* invokes its callback at most once.
SingleListeners == \A s \in 1..Len(sockets) : sockets[s].setups <= 1

\* C3: within one round endGame (the Running -> Ended transition with its
\* result display) runs at most once, however many gameStateUpdate
\* messages with gameEnded = true arrive, each dispatched once.
C3_EndGameOncePerRound ==
    (roundStarted /\ SingleListeners) => roundEnds <= 1

\* C4: a running host leaves Running only in the step in which its round
\* timer expires; no message moves it to Ended before that.
C4_HostEndsOnlyOnExpiry ==
    [][(isHost /\ gameStarted /\ ~gameStarted')
        => (last'.kind = "timer" /\ last'.name = "gameEnd")]_vars

\* C5: a heartbeat tick on a connected socket that finds the last pong
\* older than the timeout leaves no heartbeat interval armed, closes the
\* socket and schedules exactly one reconnect; no second reconnect is ever
\* pending beside it.
C5_DeathSchedulesOneReconnect ==
    /\ [][(/\ last'.kind = "heartbeat"
           /\ sockets[socket].status = "connected"
           /\ pongAge > PONG_TIMEOUT)
            => /\ DOMAIN intervals' = {}
               /\ sockets'[socket].status = "closed"
               /\ reconnects' = reconnects + 1]_vars
    /\ [](reconnects <= 1)

C5_Witness ==
    /\ last.kind = "heartbeat"
    /\ last.name = "dead"
    /\ last.sent = <<Emit("ping", socket)>>
    /\ sockets[socket].status = "closed"
    /\ DOMAIN intervals = {}
    /\ reconnects = 1

\* C6: right after the onRoomClosed callback of js/index.js has run, the
\* roster is empty.
C6_RosterEmptyAfterRoomClosed ==
    (Dispatched("roomClosed") /\ callbacks["onRoomClosed"] = "index")
        => players = <<>>

C6_Witness ==
    /\ Dispatched("roomClosed")
    /\ callbacks["onRoomClosed"] = "index"
    /\ last.pre = 2
    /\ players = <<>>

\* C11: a tapEvent dispatched once to the js/index.js callback while the
\* roster holds a player raises exactly one tap counter by exactly 1 and
\* leaves every other counter as it was.
C11_TapEventIncrementsByOne ==
    (/\ last.kind = "msg"
     /\ last.name = "tapEvent"
     /\ last.fired = <<[cb |-> "onTapEvent", owner |-> "index"]>>
     /\ last.pre > 0)
        => /\ Len(cells) = Len(last.preCells)
           /\ \E i \in 1..Len(cells) :
                /\ cells[i].taps = last.preCells[i].taps + 1
                /\ \A j \in (1..Len(cells)) \ {i} : cells[j] = last.preCells[j]

\* endGame ran in the latest step: the round timer expired, or a
\* gameStateUpdate with gameEnded set reached the js/index.js callback.
EndGameRan ==
    \/ last.kind = "timer" /\ last.name = "gameEnd"
    \/ /\ Dispatched("gameStateUpdate")
       /\ last.msg.gameEnded
       /\ callbacks["onGameStateUpdate"] = "index"

\* The tap count of the i-th player of the roster: the counter of its cell,
\* 0 when none has been counted.
TapCount(i) == IF i <= Len(cells) THEN cells[i].taps ELSE 0

\* C12: right after endGame has ended a round with players in the roster,
\* the result
\* names the first player in roster order whose tap count is the maximum
\* over the roster, and maxTaps is that maximum.
C12_WinnerIsFirstMax ==
    (EndGameRan /\ roundStarted /\ players # <<>>)
        => \E i \in 1..Len(players) :
            /\ \A j \in 1..Len(players) : TapCount(j) <= TapCount(i)
            /\ \A j \in 1..(i - 1) : TapCount(j) < TapCount(i)
            /\ result.winner = players[i].name
            /\ result.maxTaps = TapCount(i)

IsRequest(pkt) == pkt.ev \in {"create-room", "join-room"}

NumRequests(seq) == Cardinality({k \in DOMAIN seq : IsRequest(seq[k])})

\* The requests still waiting: once('connect') listeners not yet run and
\* request packets in send buffers.
RECURSIVE PendingUpTo(_, _)
PendingUpTo(ss, n) ==
    IF n = 0 THEN 0
    ELSE PendingUpTo(ss, n - 1) + Len(ss[n].onceConnect)
            + NumRequests(ss[n].sendBuffer)

Pending(ss) == PendingUpTo(ss, Len(ss))

IsRequestCall(l) ==
    \/ l.kind = "call" /\ l.name \in {"createRoom", "joinRoom"}
    \/ l.kind = "click" /\ l.name \in {"create-lobby", "join-button"}

\* Every request the latest step put on the wire went out on a connected
\* socket.
RequestsOnConnectedSocket ==
    \A k \in DOMAIN last.sent :
        IsRequest(last.sent[k])
            => sockets[last.sent[k].sock].status = "connected"

\* No request waits in the send buffer of a socket that has been closed.
NoRequestOnClosedSocket ==
    \A i \in 1..Len(sockets) :
        sockets[i].status = "closed"
            => NumRequests(sockets[i].sendBuffer) = 0

\* C13: a createRoom or joinRoom call on a connected session puts its
\* request on the wire at once, exactly once; on a session that is not
\* connected it sends nothing and starts a connect.  Every request reaches
\* the wire at most once and only on a connected socket (each step sends
\* exactly the requests that stop waiting), and none is left waiting on a
\* socket that has been closed.
C13_RequestSentOnceAfterConnect ==
    /\ [][/\ Pending(sockets') + NumRequests(last'.sent)
                = Pending(sockets) + (IF IsRequestCall(last') THEN 1 ELSE 0)
           /\ IsRequestCall(last') =>
                IF Connected(sockets, socket)
                THEN NumRequests(last'.sent) = 1 /\ Len(sockets') = Len(sockets)
                ELSE /\ last'.sent = <<>>
                     /\ Len(sockets') = Len(sockets) + 1
                     /\ sockets'[socket'].status = "connecting"]_vars
    /\ [](RequestsOnConnectedSocket)
    /\ [](NoRequestOnClosedSocket)

\* C14: every create-room request put on the wire, at once or after the
\* lazy connect, carries the room code and the hostSkin its createRoom
\* call was given.
C14_CreateRoomCarriesCodeAndSkin ==
    \A k \in DOMAIN last.sent :
        last.sent[k].ev = "create-room"
            => /\ last.sent[k].data.roomCode = last.sent[k].call.code
               /\ last.sent[k].data.skin = last.sent[k].call.skin

RejectedJoinStaysPreJoin ==
    (/\ last.kind = "msg"
     /\ last.name = "roomError"
     /\ last.msg.message # ""
     /\ last.preJoinErr > 0)
        => /\ errorMessage = last.msg.message
           /\ joinControls
           /\ gameJoined = last.preJoined

\* C15: a roomError with a reason that answers a pending join shows the
\* reason verbatim, leaves the join controls displayed and does not mark
\* the client as joined; the joined mark is set by a joinSuccess only.
C15_RejectedJoinShowsReason ==
    /\ [](RejectedJoinStaysPreJoin)
    /\ [][(~gameJoined /\ gameJoined')
            => (last'.kind = "msg" /\ last'.name = "joinSuccess")]_vars

C15_Witness ==
    /\ last.kind = "msg"
    /\ last.name = "roomError"
    /\ last.preJoinErr = 2
    /\ sockets[last.sock].setups = 2
    /\ errorMessage = "Room is full"
    /\ joinControls
    /\ ~gameJoined

IsSendCall(l) ==
    l.kind = "call" /\ l.name \in {"sendTap", "updateGameState", "updatePlayerInfo"}

\* Nothing but createRoom / joinRoom requests waits to be sent, and a
\* connect puts nothing else on the wire.
OnlyRequestsWait ==
    /\ \A i \in 1..Len(sockets) :
        NumRequests(sockets[i].sendBuffer) = Len(sockets[i].sendBuffer)
    /\ last.kind = "connect" => NumRequests(last.sent) = Len(last.sent)

\* C16: sendTap, updateGameState and updatePlayerInfo called while the
\* session is not connected send nothing, start no connection and leave
\* every socket as it was; their message is not kept for later, so a
\* later connect sends none of them.
C16_SendWhileDisconnectedIsDropped ==
    /\ [][(IsSendCall(last') /\ ~Connected(sockets, socket))
            => /\ last'.sent = <<>>
               /\ sockets' = sockets
               /\ socket' = socket]_vars
    /\ [](OnlyRequestsWait)

C16_Witness ==
    /\ IsSendCall(last)
    /\ last.name = "updatePlayerInfo"
    /\ last.sent = <<>>
    /\ socket \in 1..Len(sockets)
    /\ sockets[socket].status = "connecting"
    /\ sockets[socket].setups > 0
    /\ Len(sockets) = 2

IsConnectCall(l) == l.kind = "call" /\ l.name = "connectToServer"

\* C17: connectToServer called while the current socket is connected
\* changes nothing of the session: no socket is created, no listener is
\* added, and the heartbeat interval and the time since the last pong stay
\* as they were.
C17_ConnectWhileConnectedIsNoOp ==
    [][(IsConnectCall(last') /\ Connected(sockets, socket))
        => /\ sockets' = sockets
           /\ socket' = socket
           /\ pingInterval' = pingInterval
           /\ intervals' = intervals
           /\ pongAge' = pongAge
           /\ reconnects' = reconnects]_vars

C17_Witness ==
    /\ IsConnectCall(last)
    /\ Connected(sockets, socket)
    /\ Len(sockets) = 1
    /\ DOMAIN intervals # {}
    /\ pongAge > 0

\* The sockets that are open or being established.
LiveSockets ==
    {i \in 1..Len(sockets) : sockets[i].status \in {"connecting", "connected"}}

\* C18: at any time at most one socket of the client is open or being
\* established.
C18_AtMostOneConnection == Cardinality(LiveSockets) <= 1

\* C19: a playerJoined, playerLeft or player-info-update message that
\* arrives after the room-closed reset, and before a new room is asked
\* for, invokes no callback and leaves the roster as it was.
C19_NoRosterEventsAfterRoomClosed ==
    (roomClosed /\ last.kind = "msg" /\ last.name \in RosterEvents)
        => /\ last.fired = <<>>
           /\ Len(players) = last.pre

IsGesture(l) == l.kind = "gesture" /\ l.name = "touchstart"

\* C20: a touchstart while the round runs and the current socket is
\* connected emits exactly one playerTap on that socket; a touchstart
\* while no round runs, before the start or after the end, emits nothing.
C20_TapGestureSendsOneTapWhileRunning ==
    [][IsGesture(last')
        => /\ (gameStarted /\ Connected(sockets, socket))
                => last'.sent = <<Emit("playerTap", socket)>>
           /\ ~gameStarted => last'.sent = <<>>]_vars

C20_Witness ==
    /\ IsGesture(last)
    /\ gameStarted
    /\ Connected(sockets, socket)
    /\ last.sent = <<Emit("playerTap", socket)>>
    /\ winnerModals > 0

\* The latest step emitted event ev.
Sent(ev) == \E k \in DOMAIN last.sent : last.sent[k].ev = ev

\* C21: a page that has not created a room has no round timer pending,
\* none recorded in gameEndTimeout, and emits no updateGameState.
C21_OnlyHostOwnsRoundTimer ==
    ~isHost => /\ roundTimers = {}
               /\ gameEndTimeout = 0
               /\ ~Sent("updateGameState")

C21_Witness ==
    /\ ~isHost
    /\ Dispatched("gameStarting")
    /\ gameStarted
    /\ winnerModals > 0
    /\ roundTimers = {}

IsStartClick(l) == l.kind = "click" /\ l.name = "start-game-button"

\* C22: right after the host's click on the start button a signal has
\* been emitted and the page is Running, and right after a gameStarting
\* message has invoked the page's callback the page is Running.
C22_StartMakesClientsRunning ==
    /\ IsStartClick(last) => (last.sent # <<>> /\ gameStarted)
    /\ (Dispatched("gameStarting") /\ callbacks["onGameStarting"] = "index")
            => gameStarted

IsStateUpdate(l, ended) ==
    l.kind = "msg" /\ l.name = "gameStateUpdate" /\ l.msg.gameEnded = ended

\* C23: a gameStateUpdate with gameEnded that reaches the page's callback
\* while the round runs ends the round; a gameStateUpdate without
\* gameEnded changes nothing of the page: round state, round timers and
\* tap counters stay as they were.
C23_GameStateUpdateEndsRound ==
    /\ [][(/\ IsStateUpdate(last', TRUE)
           /\ last'.fired # <<>>
           /\ callbacks["onGameStateUpdate"] = "index"
           /\ gameStarted)
            => (~gameStarted' /\ roundEnds' > 0)]_vars
    /\ [][IsStateUpdate(last', FALSE) => UNCHANGED pageVars]_vars

C23_Witness ==
    /\ IsStateUpdate(last, TRUE)
    /\ Len(last.fired) = 1
    /\ roundStarted
    /\ roundEnds = 1
    /\ ~gameStarted

\* The alphabet without I, O and V.
RestrictedAlphabet ==
    {"A", "B", "C", "D", "E", "F", "G", "H", "J", "K", "L", "M",
     "N", "P", "Q", "R", "S", "T", "U", "W", "X", "Y", "Z"}

\* C24: a code generateRoomCode returns has exactly four characters, all
\* of the restricted alphabet, and includes no bad word.
C24_RoomCodeIsWellFormed ==
    codeGen.returned # <<>>
        => /\ Len(codeGen.returned) = 4
           /\ \A k \in 1..Len(codeGen.returned) :
                codeGen.returned[k] \in RestrictedAlphabet
           /\ \A k \in DOMAIN badWords :
                ~Includes(codeGen.returned, badWords[k])

C24_Witness ==
    /\ codeGen.returned = <<"D", "A", "M", "M">>
    /\ codeGen.retried

\* C25: when a socket has given up connecting, the failure has been
\* signalled: a callback was invoked or an error is shown, so a request
\* that waits for the connect of that socket is not left waiting silently.
C25_ConnectFailureIsSurfaced ==
    (last.kind = "giveup")
        => (last.fired # <<>> \/ errorMessage # "")

\* C26: at any time at most one heartbeat interval is armed.
C26_AtMostOneHeartbeat == Cardinality(DOMAIN intervals) <= 1

C26_Witness ==
    /\ last.kind = "connect"
    /\ Len(sockets) = 2
    /\ \A i \in 1..2 : sockets[i].status = "connected"
    /\ sockets[2].setups = 2
    /\ Cardinality(DOMAIN intervals) = 1

\* C27: at any time at most one round timer is pending, also without
\* duplicated listeners.
C27_AtMostOneRoundTimer ==
    SingleListeners => Cardinality(roundTimers) <= 1

IsRoundTimer(l) == l.kind = "timer" /\ l.name = "gameEnd"

\* C28: no round timer is pending after the room-closed reset, and none
\* fires on a page whose room was closed and that has asked for no new
\* room since.
C28_ResetCancelsRoundTimer ==
    /\ (Dispatched("roomClosed") /\ callbacks["onRoomClosed"] = "index")
            => roundTimers = {}
    /\ IsRoundTimer(last) => ~roomClosed

\* C29: whenever the current socket is not connected, no heartbeat
\* interval is armed, also on a session that never opened a second socket.
C29_NoHeartbeatWhileDisconnected ==
    (Len(sockets) <= 1 /\ ~Connected(sockets, socket))
        => DOMAIN intervals = {}

\* The round states of a page, read from gameStarted and the history of
\* startGame / endGame.
InLobby == ~roundStarted /\ ~gameStarted

Running == gameStarted

Ended == roundStarted /\ ~gameStarted /\ roundEnds > 0

\* C31: no step takes a page from Ended back to Running, or from Running
\* back to the lobby.
C31_RoundStateOnlyMovesForward ==
    [][/\ ~(Ended /\ Running')
       /\ ~(Running /\ InLobby')]_vars

\* Message type was dispatched by the step to the page's callback,
\* exactly once.
DispatchedOnce(l, type) ==
    /\ l.kind = "msg"
    /\ l.name = type
    /\ Len(l.fired) = 1
    /\ l.fired[1].owner = "index"

\* sub is made of entries of ps, in the order they have in ps.
KeepsOrder(sub, ps) ==
    \E f \in [1..Len(sub) -> 1..Len(ps)] :
        /\ \A i \in 1..Len(sub) : sub[i] = ps[f[i]]
        /\ \A i, j \in 1..Len(sub) : i < j => f[i] < f[j]

\* C32: a playerJoined puts its player at the end of the roster, behind
\* the players already there; a playerLeft leaves the remaining players
\* in the order they had; a player-info-update moves no player.
C32_RosterKeepsJoinOrder ==
    [][/\ DispatchedOnce(last', "playerJoined")
            => players' = players \o
                    <<Player(last'.msg.name, last'.msg.skin)>>
       /\ DispatchedOnce(last', "playerLeft")
            => KeepsOrder(players', players)
       /\ DispatchedOnce(last', "player-info-update")
            => /\ Len(players') = Len(players)
               /\ \A i \in 1..Len(players) :
                    players[i].name # last'.msg.name
                        => players'[i] = players[i]]_vars

C32_Witness ==
    /\ DispatchedOnce(last, "playerJoined")
    /\ last.msg.name = "bob"
    /\ players = <<Player("ann", 1), Player("bob", 2)>>

\* A connected socket is closed or a reconnect is scheduled by the step.
ClosesOrReconnects ==
    \/ reconnects' > reconnects
    \/ \E s \in 1..Len(sockets) :
            sockets[s].status = "connected" /\ sockets'[s].status = "closed"

\* C33: a socket is closed and a reconnect scheduled only by a heartbeat
\* tick at which more than 60000 ms have passed since the last pong, or
\* since the connect if there was none; and every tick on a connected
\* socket emits exactly one ping on it.
C33_DeadOnlyAfterPongTimeout ==
    [][/\ ClosesOrReconnects
            => (last'.kind = "heartbeat" /\ pongAge > 60000)
       /\ (last'.kind = "heartbeat" /\ Connected(sockets, socket))
            => last'.sent = <<Emit("ping", socket)>>]_vars

C33_Witness ==
    /\ last.kind = "heartbeat"
    /\ last.sent = <<Emit("ping", socket)>>
    /\ pongAge = 60000
    /\ Connected(sockets, socket)
    /\ reconnects = 0

\* C34: the current socket never holds more than one playerJoined /
\* playerLeft listener pair, and whenever the client has created a room
\* and its current socket is connected, that socket holds exactly one.
C34_HostKeepsOneRosterHandler ==
    /\ socket # 0 => sockets[socket].roster <= 1
    /\ (HasCreatedRoom /\ Connected(sockets, socket))
            => sockets[socket].roster = 1

\* C35: a host page that is Running eventually ends its round, and a
\* peer that is Running together with the host, whose round timer is
\* pending, eventually ends its round too.
C35_RunningLeadsToEnded ==
    /\ (isHost /\ gameStarted) ~> ~gameStarted
    /\ (peer.gameStarted /\ gameStarted /\ roundTimers # {})
            ~> ~peer.gameStarted

\* C36: a join attempt registers one once('joinSuccess') and one
\* once('roomError') listener; once the attempt is answered neither is
\* left to react to a later answer, so every socket holds as many of the
\* one as of the other.
C36_JoinResolvedAtMostOnce ==
    \A s \in 1..Len(sockets) : sockets[s].joinOk = sockets[s].joinErr

\* The positions of ps that hold a player named name.
Named(ps, name) == {i \in 1..Len(ps) : ps[i].name = name}

\* C37: after a playerLeft for name no roster entry carries that name,
\* and the entries with other names are all still there, unchanged and
\* in order; when no entry carries the name the roster is unchanged.
C37_PlayerLeftRemovesAllNamed ==
    [][DispatchedOnce(last', "playerLeft")
        => /\ Named(players', last'.msg.name) = {}
           /\ Len(players') =
                Len(players) - Cardinality(Named(players, last'.msg.name))
           /\ KeepsOrder(players', players)
           /\ Named(players, last'.msg.name) = {} => players' = players]_vars

C37_Witness ==
    /\ DispatchedOnce(last, "playerLeft")
    /\ last.msg.name = "ann"
    /\ last.pre = 2
    /\ players = <<>>

\* A player-info-update message was delivered to a socket with listeners.
IsInfoUpdate(l) ==
    /\ l.kind = "msg"
    /\ l.name = "player-info-update"
    /\ Len(l.fired) > 0

\* C38: a player-info-update whose oldName is not in the roster changes
\* nothing; one whose oldName is there changes at most the name and skin
\* of the first entry with that name, and leaves the length of the
\* roster and every other entry as they were.
C38_InfoUpdateTouchesFirstMatchOnly ==
    [][IsInfoUpdate(last')
        => LET i == FirstNamed(players, last'.msg.name) IN
           /\ Len(players') = Len(players)
           /\ \A j \in 1..Len(players) : j # i => players'[j] = players[j]
           /\ i = 0 => players' = players]_vars

\* C39: right after endGame has run while no player of the roster has a
\* tap count above 0 (an empty roster included), the result declares no
\* winner: winner is null and maxTaps is 0.
C39_NoTapsNoWinner ==
    (EndGameRan /\ \A i \in 1..Len(players) : TapCount(i) = 0)
        => result = [winner |-> Null, maxTaps |-> 0]

C39_Witness ==
    /\ EndGameRan
    /\ Len(players) > 0
    /\ \A i \in 1..Len(players) : TapCount(i) = 0
    /\ result.winner = Null

\* C8: right after the onRoomClosed callback has run, the client is not
\* Running.
C8_NotRunningAfterRoomClosed ==
    (Dispatched("roomClosed") /\ callbacks["onRoomClosed"] = "index")
        => ~gameStarted

\* C9: a client that hosted a room that was closed and is then admitted to
\* a room as a peer is not host.
C9_NoHostRoleAfterRejoin ==
    (/\ hostedClosed
     /\ last.kind = "msg"
     /\ last.name = "joinSuccess"
     /\ gameJoined)
        => ~isHost

\* C10: after setCallbacks(A) and then setCallbacks(B), a dispatched event
\* invokes only the callback B supplies for it, and none when B supplies
\* none.
C10_OnlyLatestSetFires ==
    last.kind = "msg" =>
        /\ \A k \in 1..Len(last.fired) :
            last.fired[k].owner = lastRegistered[last.fired[k].cb]
        /\ (/\ CallbackOf(last.name) # "none"
            /\ lastRegistered[CallbackOf(last.name)] = Undefined)
                => last.fired = <<>>

C10_Witness ==
    /\ last.kind = "msg"
    /\ last.name = "tapEvent"
    /\ Listeners(sockets[last.sock], "tapEvent") > 0
    /\ lastRegistered = CallbacksBPartial
    /\ callbacks["onPlayerJoined"] = "B"
    /\ last.fired = <<>>

====
